---- MODULE Spec2Model ----
(***************************************************************************)
(* Model of fs_notify's native watcher registry                            *)
(* (src/native/fs_notify/src/lib.rs): the global id counter and watcher    *)
(* map, the three create entry points, stop_watcher, get_events with its   *)
(* try_recv drain loop, get_watcher_info, list_available_backends, and the *)
(* event-kind normalisation.  Host threads call the NIFs concurrently; a   *)
(* backend producer per live subscription appends items to its channel.    *)
(***************************************************************************)
EXTENDS Integers, Sequences, FiniteSets, TLC

(* ---------------------------- bounds ----------------------------------- *)

\* create calls that may allocate an id (NEXT_WATCHER_ID is a u64 in the code)
MaxId == 2
\* items the backends put on channels in one behaviour (channels are unbounded)
MaxItems == 2

Threads == {"t1", "t2"}
NoThread == "none"

\* workloads explored: each fixes which host threads make calls and the
\* arguments and backend items they are drawn from
Scenarios == {"lifecycle", "events", "backends", "errors", "drain", "debounce"}
Ids == 1 .. MaxId + 1

Platforms == {"linux", "macos", "windows", "other"}

\* backend identifiers a host can pass; "bogus" stands for any other atom
Atoms == {"recommended", "poll", "inotify", "fsevent", "kqueue", "windows", "null", "bogus"}

\* (path, recursive) arguments of the create calls
CreateArgs == {[path |-> "/w", recursive |-> TRUE], [path |-> "/v", recursive |-> FALSE]}

HostThreads(s) == IF s \in {"lifecycle", "drain"} THEN Threads ELSE {"t1"}

ArgsOf(s) == IF s = "backends" THEN CreateArgs ELSE {[path |-> "/w", recursive |-> TRUE]}

AtomsOf(s) == IF s = "backends" THEN Atoms ELSE {"recommended", "bogus"}

PlatformsOf(s) == IF s = "backends" THEN Platforms ELSE {"linux", "other"}

\* ids a workload lets the counter hand out: the workloads about the items
\* keep to a fixed number of watchers
IdsOf(s) ==
    CASE s = "events"                         -> 2
      [] s \in {"errors", "drain", "debounce"} -> 1
      [] OTHER                                -> MaxId

\* items a workload lets the backends send: "events" and "debounce" (raw
\* events there) are about the items, "errors" needs one more (an item before
\* and one after an error item); in "drain" it is the number of items a
\* channel holds at a time, the producer never runs out
ItemsOf(s) ==
    CASE s \in {"events", "debounce"} -> MaxItems
      [] s = "errors"                -> MaxItems + 1
      [] s = "drain"                 -> MaxItems
      [] OTHER                       -> 1

\* workloads that keep the history of the items sent; "drain" lets the
\* producer send without end, so it keeps none
Tracked(s) == s # "drain"

\* the workload in which the debouncer's window is modelled; in the others a
\* debouncer is a source of arbitrary batches
DebouncerModelled(s) == s = "debounce"

\* Option<u64>: <<>> is None, <<ms>> is Some(ms)
DebounceArgs == {200}

\* paths named by events; "/w/\\xFF" is a path that is not valid UTF-8
Dirs == {"/w/d"}

\* items a regular backend sends: Ok(Event{kind, paths}) or Err(_)
RegularItems ==
    { [ok |-> TRUE,  kind |-> "Create", paths |-> <<"/w/f">>],
      [ok |-> TRUE,  kind |-> "Modify", paths |-> <<"/w/d", "/w/f">>],
      [ok |-> TRUE,  kind |-> "Remove", paths |-> <<"/w/\\xFF">>],
      [ok |-> TRUE,  kind |-> "Other",  paths |-> <<"/w/f">>],
      [ok |-> TRUE,  kind |-> "Any",    paths |-> <<"/w/f", "/w/d">>],
      [ok |-> TRUE,  kind |-> "Access", paths |-> <<"/w/f">>],
      [ok |-> TRUE,  kind |-> "Modify", paths |-> <<>>],
      [ok |-> FALSE, kind |-> "Error",  paths |-> <<>>] }

\* items a debouncer sends: Ok(Vec<DebouncedEvent{path, kind}>) or Err(_)
DebouncedItems ==
    { [ok |-> TRUE,  events |-> <<[path |-> "/w/f", kind |-> "Any"]>>],
      [ok |-> TRUE,  events |-> <<[path |-> "/w/d", kind |-> "AnyContinuous"],
                                  [path |-> "/w/f", kind |-> "Any"]>>],
      [ok |-> FALSE, events |-> <<>>] }

\* "drain" sends only error items: they keep the collected events, and with
\* them the state, from growing while the producer sends without end
RegularItemsOf(s) ==
    CASE s = "events" -> RegularItems
      [] s = "errors" -> {[ok |-> TRUE,  kind |-> "Create", paths |-> <<"/w/f">>],
                          [ok |-> TRUE,  kind |-> "Remove", paths |-> <<"/w/d">>],
                          [ok |-> FALSE, kind |-> "Error",  paths |-> <<>>]}
      [] s = "drain"  -> {[ok |-> FALSE, kind |-> "Error",  paths |-> <<>>]}
      [] OTHER        -> {[ok |-> TRUE, kind |-> "Create", paths |-> <<"/w/f">>]}

DebouncedItemsOf(s) ==
    CASE s = "events" -> DebouncedItems
      [] s = "errors" -> {[ok |-> TRUE,  events |-> <<[path |-> "/w/f", kind |-> "Any"]>>],
                          [ok |-> TRUE,  events |-> <<[path |-> "/w/d", kind |-> "Any"]>>],
                          [ok |-> FALSE, events |-> <<>>]}
      [] s = "drain"  -> {[ok |-> FALSE, events |-> <<>>]}
      [] OTHER        -> {[ok |-> TRUE, events |-> <<[path |-> "/w/f", kind |-> "Any"]>>]}

(* ---------------------------- state ------------------------------------ *)

VARIABLES
    scn,              \* the workload of this behaviour
    platform,         \* target_os the crate was compiled for
    NEXT_WATCHER_ID,  \* static AtomicU64
    WATCHERS,         \* static Mutex<HashMap<u64, WatcherInfo>>: the map
    lock,             \* holder of the WATCHERS mutex
    chan,             \* each live subscription, by watcher id: its mpsc
                      \* channel, whether the sending side is still there,
                      \* and (debouncer) the paths of the window being collected
    th,               \* each host thread's position and locals
    produced,         \* number of items sent so far
    returned,         \* history: ids returned by create calls, in return order
    stopped,          \* history: ids for which stop_watcher returned ok
    req,              \* history: arguments of the create call holding each id
    hist              \* history: items sent to and drains taken from each channel

vars == <<scn, platform, NEXT_WATCHER_ID, WATCHERS, lock, chan, th, produced,
          returned, stopped, req, hist>>

(* ---------------------------- helpers ---------------------------------- *)

EmptyMap == [i \in {} |-> 0]

\* HashMap::insert
MapInsert(m, k, v) == [i \in DOMAIN m \cup {k} |-> IF i = k THEN v ELSE m[i]]

\* variant: the test is inverted, every entry but k's is taken out
MapRemove_others(m, k) == [i \in DOMAIN m \cap {k} |-> m[i]]

\* variant: the entry is looked up but left in the map
MapRemove_keeps(m, k) == m

\* HashMap::remove
MapRemove(m, k) == [i \in DOMAIN m \ {k} |-> m[i]]

Range(s) == {s[i] : i \in DOMAIN s}

BadArg == "BadArg"

(* ---------------------------- pure functions --------------------------- *)

\* BackendType::from_atom under cfg(target_os = os)
from_atom(atom, os) ==
    IF atom = "recommended" THEN "Recommended"
    ELSE IF atom = "poll" THEN "Poll"
    ELSE IF atom = "inotify" THEN (IF os = "linux" THEN "INotify" ELSE BadArg)
    ELSE IF atom = "fsevent" THEN (IF os = "macos" THEN "FsEvent" ELSE BadArg)
    ELSE IF atom = "kqueue" THEN BadArg
    ELSE IF atom = "windows" THEN (IF os = "windows" THEN "Windows" ELSE BadArg)
    ELSE IF atom = "null" THEN "Null"
    ELSE BadArg

\* variant: the macos arm names the other macos mechanism
platform_kind_kqueue(os) ==
    IF os = "linux" THEN "Inotify"
    ELSE IF os = "macos" THEN "Kqueue"
    ELSE IF os = "windows" THEN "ReadDirectoryChangesWatcher"
    ELSE "PollWatcher"

\* the cfg-selected WatcherKind of the platform's recommended watcher
platform_kind(os) ==
    IF os = "linux" THEN "Inotify"
    ELSE IF os = "macos" THEN "Fsevent"
    ELSE IF os = "windows" THEN "ReadDirectoryChangesWatcher"
    ELSE "PollWatcher"

\* BackendType::create_watcher: the WatcherKind it returns with the watcher
create_watcher(backend, os) ==
    CASE backend = "Recommended" -> platform_kind(os)
      [] backend = "Poll"        -> "PollWatcher"
      [] backend = "INotify"     -> "Inotify"
      [] backend = "FsEvent"     -> "Fsevent"
      [] backend = "Windows"     -> "ReadDirectoryChangesWatcher"
      [] backend = "Null"        -> "NullWatcher"

\* variant: the platform-native kinds are reported under the alias
backend_atom_alias(kind) ==
    CASE kind = "Kqueue"      -> "kqueue"
      [] kind = "PollWatcher" -> "poll"
      [] kind = "NullWatcher" -> "null"
      [] OTHER                -> "recommended"

\* get_watcher_info: WatcherKind -> atom
backend_atom(kind) ==
    CASE kind = "Inotify"                     -> "inotify"
      [] kind = "Fsevent"                     -> "fsevent"
      [] kind = "Kqueue"                      -> "kqueue"
      [] kind = "PollWatcher"                 -> "poll"
      [] kind = "ReadDirectoryChangesWatcher" -> "windows"
      [] kind = "NullWatcher"                 -> "null"
      [] OTHER                                -> "unknown"

\* list_available_backends under cfg(target_os = os)
list_available_backends(os) ==
    <<"recommended", "poll", "null">>
        \o (IF os = "linux" THEN <<"inotify">> ELSE <<>>)
        \o (IF os = "macos" THEN <<"fsevent", "kqueue">> ELSE <<>>)
        \o (IF os = "windows" THEN <<"windows">> ELSE <<>>)

\* variant: the catch-all arm guesses `modified`
event_kind_to_atom_guess(kind) ==
    CASE kind = "Create" -> "created"
      [] kind = "Remove" -> "removed"
      [] kind = "Other"  -> "meta"
      [] OTHER           -> "modified"

event_kind_to_atom(kind) ==
    CASE kind = "Create" -> "created"
      [] kind = "Modify" -> "modified"
      [] kind = "Remove" -> "removed"
      [] kind = "Other"  -> "meta"
      [] OTHER           -> "unknown"

\* variant: the arm for Any is missing, every debounced event is `unknown`
debounced_event_kind_to_atom_catchall(kind) == "unknown"

\* variant: the two arms are swapped
debounced_event_kind_to_atom_swapped(kind) ==
    CASE kind = "Any" -> "unknown"
      [] OTHER        -> "modified"

debounced_event_kind_to_atom(kind) ==
    CASE kind = "Any" -> "modified"
      [] OTHER        -> "unknown"

\* Path::to_string_lossy: invalid UTF-8 becomes U+FFFD
path_to_string(path) ==
    IF path = "/w/\\xFF" THEN "/w/\\uFFFD" ELSE path

\* the file-type probe path.is_dir()
file_type(path) == IF path \in Dirs THEN "directory" ELSE "file"

\* variant: the new events go in front of the ones already collected
regular_push_front(events, item) ==
    IF item.ok
    THEN [i \in 1 .. Len(item.paths) |->
            <<event_kind_to_atom(item.kind),
              path_to_string(item.paths[i]),
              file_type(item.paths[i])>>] \o events
    ELSE events

\* body of the regular `while let Ok(result) = receiver.try_recv()` loop
regular_push(events, item) ==
    IF item.ok
    THEN events \o [i \in 1 .. Len(item.paths) |->
                      <<event_kind_to_atom(item.kind),
                        path_to_string(item.paths[i]),
                        file_type(item.paths[i])>>]
    ELSE events

\* variant: only the first event of a debounced batch is pushed
debounced_push_first(events, item) ==
    IF item.ok /\ item.events # <<>>
    THEN Append(events,
                <<debounced_event_kind_to_atom(item.events[1].kind),
                  path_to_string(item.events[1].path),
                  file_type(item.events[1].path)>>)
    ELSE events

\* body of the debounced `while let Ok(result) = receiver.try_recv()` loop
debounced_push(events, item) ==
    IF item.ok
    THEN events \o [i \in 1 .. Len(item.events) |->
                      <<debounced_event_kind_to_atom(item.events[i].kind),
                        path_to_string(item.events[i].path),
                        file_type(item.events[i].path)>>]
    ELSE events

(* ---------------------------- threads ---------------------------------- *)

IdleThread ==
    [pc |-> "idle", op |-> "none", arg |-> "none", id |-> 0,
     path |-> "", recursive |-> FALSE, backend |-> "none", debounce_ms |-> <<>>,
     backend_kind |-> "none", events |-> <<>>,
     status |-> "none", at |-> "none", val |-> <<>>]

\* the call has returned `status` with value `val` to the host
Returned(op, arg, id, status, at, val) ==
    [IdleThread EXCEPT !.pc = "done", !.op = op, !.arg = arg, !.id = id,
                       !.status = status, !.at = at, !.val = val]

CreateOps == {"start_watcher", "start_watcher_with_backend", "start_watcher_with_debounce"}

Init ==
    /\ scn \in Scenarios
    /\ platform \in PlatformsOf(scn)
    /\ NEXT_WATCHER_ID = 1
    /\ WATCHERS = EmptyMap
    /\ lock = NoThread
    /\ chan = EmptyMap
    /\ th = [t \in Threads |-> IdleThread]
    /\ produced = 0
    /\ returned = <<>>
    /\ stopped = {}
    /\ req = EmptyMap
    /\ hist = EmptyMap

\* AtomicU64::fetch_add(1): the counter's next value
fetch_add(n) == n + 1

\* start_watcher_internal, lines 186-193: take the id, then go on to build
start_watcher_internal(t, op, atom, path, recursive, backend, debounce_ms) ==
    /\ NEXT_WATCHER_ID <= IdsOf(scn)
    /\ th' = [th EXCEPT ![t] =
                [IdleThread EXCEPT !.pc = "construct", !.op = op, !.arg = atom,
                                   !.id = NEXT_WATCHER_ID, !.path = path,
                                   !.recursive = recursive, !.backend = backend,
                                   !.debounce_ms = debounce_ms]]
    /\ NEXT_WATCHER_ID' = fetch_add(NEXT_WATCHER_ID)
    /\ req' = MapInsert(req, NEXT_WATCHER_ID,
                        [path |-> path, recursive |-> recursive,
                         atom |-> atom, debounce_ms |-> debounce_ms])
    /\ UNCHANGED <<scn, platform, WATCHERS, lock, chan, produced, returned, stopped, hist>>

\* a create entry point rejects its backend atom before start_watcher_internal
reject_backend(t, op, atom) ==
    /\ th' = [th EXCEPT ![t] = Returned(op, atom, 0, "badarg", "from_atom", <<>>)]
    /\ UNCHANGED <<scn, platform, NEXT_WATCHER_ID, WATCHERS, lock, chan, produced,
                   returned, stopped, req, hist>>

start_watcher(t) ==
    /\ t \in HostThreads(scn)
    /\ th[t].pc = "idle"
    /\ \E a \in ArgsOf(scn) :
         start_watcher_internal(t, "start_watcher", "recommended",
                                a.path, a.recursive, "Recommended", <<>>)

start_watcher_with_backend(t) ==
    /\ t \in HostThreads(scn)
    /\ th[t].pc = "idle"
    /\ \E a \in ArgsOf(scn), atom \in AtomsOf(scn) :
         LET backend == from_atom(atom, platform) IN
         IF backend = BadArg
         THEN reject_backend(t, "start_watcher_with_backend", atom)
         ELSE start_watcher_internal(t, "start_watcher_with_backend", atom,
                                     a.path, a.recursive, backend, <<>>)

start_watcher_with_debounce(t) ==
    /\ t \in HostThreads(scn)
    /\ th[t].pc = "idle"
    /\ \E a \in ArgsOf(scn), atom \in AtomsOf(scn), ms \in DebounceArgs :
         LET backend == from_atom(atom, platform) IN
         IF backend = BadArg
         THEN reject_backend(t, "start_watcher_with_debounce", atom)
         ELSE start_watcher_internal(t, "start_watcher_with_debounce", atom,
                                     a.path, a.recursive, backend, <<ms>>)

\* variant: the session is stored before the fallible steps, so a failing
\* create leaves its entry behind
construct_registers_first(t) ==
    /\ th[t].pc = "construct"
    /\ LET debounced == th[t].debounce_ms # <<>>
           kind == IF debounced THEN platform_kind(platform)
                   ELSE create_watcher(th[t].backend, platform)
           wtype == IF debounced THEN "Debounced" ELSE "Regular"
       IN /\ chan' = MapInsert(chan, th[t].id,
                       [watcher_type |-> wtype,
                        watcher |-> IF debounced THEN "Debouncer" ELSE kind,
                        q |-> <<>>, open |-> TRUE, win |-> <<>>])
          /\ hist' = MapInsert(hist, th[t].id, [delivered |-> <<>>, drains |-> <<>>])
          /\ \E outcome \in {"ok", "new", "watch"} :
               IF outcome = "ok"
               THEN /\ th' = [th EXCEPT ![t].pc = "insert", ![t].backend_kind = kind]
                    /\ UNCHANGED <<WATCHERS, req>>
               ELSE /\ WATCHERS' = MapInsert(WATCHERS, th[t].id,
                                     [watcher_type |-> wtype, backend_kind |-> kind,
                                      path |-> th[t].path, recursive |-> th[t].recursive,
                                      debounce_ms |-> th[t].debounce_ms])
                    /\ th' = [th EXCEPT ![t] =
                                Returned(th[t].op, th[t].arg, th[t].id, "badarg", outcome, <<>>)]
                    /\ UNCHANGED req
    /\ UNCHANGED <<scn, platform, NEXT_WATCHER_ID, lock, produced, returned, stopped>>

\* variant: a watcher whose watch() fails is kept alive instead of dropped
construct_keeps_subscription(t) ==
    /\ th[t].pc = "construct"
    /\ LET debounced == th[t].debounce_ms # <<>>
           kind == IF debounced THEN platform_kind(platform)
                   ELSE create_watcher(th[t].backend, platform)
           built == MapInsert(chan, th[t].id,
                      [watcher_type |-> IF debounced THEN "Debounced" ELSE "Regular",
                       watcher |-> IF debounced THEN "Debouncer" ELSE kind,
                       q |-> <<>>, open |-> TRUE, win |-> <<>>])
           started == MapInsert(hist, th[t].id, [delivered |-> <<>>, drains |-> <<>>])
       IN \E outcome \in {"ok", "new", "watch"} :
            IF outcome = "ok"
            THEN /\ th' = [th EXCEPT ![t].pc = "insert", ![t].backend_kind = kind]
                 /\ chan' = built
                 /\ hist' = started
                 /\ UNCHANGED req
            ELSE /\ th' = [th EXCEPT ![t] =
                             Returned(th[t].op, th[t].arg, th[t].id, "badarg", outcome, <<>>)]
                 /\ req' = MapRemove(req, th[t].id)
                 /\ IF outcome = "watch"
                    THEN chan' = built /\ hist' = started
                    ELSE UNCHANGED <<chan, hist>>
    /\ UNCHANGED <<scn, platform, NEXT_WATCHER_ID, WATCHERS, lock, produced, returned, stopped>>

\* start_watcher_internal, lines 195-247: build the watcher or debouncer and
\* subscribe it to the path; either may fail and `?` returns the error
construct(t) ==
    /\ th[t].pc = "construct"
    /\ \E outcome \in {"ok", "new", "watch"} :
         IF outcome = "ok"
         THEN LET debounced == th[t].debounce_ms # <<>>
                  kind == IF debounced THEN platform_kind(platform)
                          ELSE create_watcher(th[t].backend, platform)
              IN /\ th' = [th EXCEPT ![t].pc = "insert", ![t].backend_kind = kind]
                 /\ chan' = MapInsert(chan, th[t].id,
                              [watcher_type |-> IF debounced THEN "Debounced" ELSE "Regular",
                               watcher |-> IF debounced THEN "Debouncer" ELSE kind,
                               q |-> <<>>, open |-> TRUE, win |-> <<>>])
                 /\ hist' = MapInsert(hist, th[t].id, [delivered |-> <<>>, drains |-> <<>>])
                 /\ UNCHANGED req
         ELSE /\ th' = [th EXCEPT ![t] =
                          Returned(th[t].op, th[t].arg, th[t].id, "badarg", outcome, <<>>)]
              /\ req' = MapRemove(req, th[t].id)
              /\ UNCHANGED <<chan, hist>>
    /\ UNCHANGED <<scn, platform, NEXT_WATCHER_ID, WATCHERS, lock, produced, returned, stopped>>

\* start_watcher_internal, lines 249-252: lock, insert, return the id
insert(t) ==
    /\ th[t].pc = "insert"
    /\ lock = NoThread
    /\ WATCHERS' = MapInsert(WATCHERS, th[t].id,
                     [watcher_type |-> chan[th[t].id].watcher_type,
                      backend_kind |-> th[t].backend_kind,
                      path |-> th[t].path,
                      recursive |-> th[t].recursive,
                      debounce_ms |-> th[t].debounce_ms])
    /\ th' = [th EXCEPT ![t] =
                Returned(th[t].op, th[t].arg, th[t].id, "ok", "none", <<th[t].id>>)]
    /\ returned' = Append(returned, th[t].id)
    /\ UNCHANGED <<scn, platform, NEXT_WATCHER_ID, lock, chan, produced, stopped, req, hist>>

\* variant: the result of the removal is not looked at
stop_watcher_unchecked(t) ==
    /\ t \in HostThreads(scn)
    /\ th[t].pc = "idle"
    /\ lock = NoThread
    /\ \E id \in Ids :
         /\ WATCHERS' = MapRemove(WATCHERS, id)
         /\ chan' = MapRemove(chan, id)
         /\ th' = [th EXCEPT ![t] = Returned("stop_watcher", "none", id, "ok", "none", <<>>)]
         /\ stopped' = stopped \cup {id}
         /\ req' = MapRemove(req, id)
         /\ hist' = MapRemove(hist, id)
    /\ UNCHANGED <<scn, platform, NEXT_WATCHER_ID, lock, produced, returned>>

\* stop_watcher: dropping the removed WatcherInfo drops its watcher and receiver
stop_watcher(t) ==
    /\ t \in HostThreads(scn)
    /\ th[t].pc = "idle"
    /\ lock = NoThread
    /\ \E id \in Ids :
         IF id \in DOMAIN WATCHERS
         THEN /\ WATCHERS' = MapRemove(WATCHERS, id)
              /\ chan' = MapRemove(chan, id)
              /\ th' = [th EXCEPT ![t] = Returned("stop_watcher", "none", id, "ok", "none", <<>>)]
              /\ stopped' = stopped \cup {id}
              /\ req' = MapRemove(req, id)
              /\ hist' = MapRemove(hist, id)
         ELSE /\ th' = [th EXCEPT ![t] =
                          Returned("stop_watcher", "none", id, "watcher_not_found", "none", <<>>)]
              /\ UNCHANGED <<WATCHERS, chan, stopped, req, hist>>
    /\ UNCHANGED <<scn, platform, NEXT_WATCHER_ID, lock, produced, returned>>

\* get_events, lines 293-296: lock and look the id up
get_events(t) ==
    /\ t \in HostThreads(scn)
    /\ th[t].pc = "idle"
    /\ lock = NoThread
    /\ \E id \in Ids :
         IF id \in DOMAIN WATCHERS
         THEN /\ th' = [th EXCEPT ![t] =
                          [IdleThread EXCEPT !.pc = "drain", !.op = "get_events", !.id = id]]
              /\ lock' = t
         ELSE /\ th' = [th EXCEPT ![t] =
                          Returned("get_events", "none", id, "badarg", "lookup", <<>>)]
              /\ UNCHANGED lock
    /\ UNCHANGED <<scn, platform, NEXT_WATCHER_ID, WATCHERS, chan, produced,
                   returned, stopped, req, hist>>

\* variant: an error item ends the drain (`break` in the place of `continue`)
try_recv_breaks_on_error(t) ==
    /\ th[t].pc = "drain"
    /\ LET id == th[t].id
           c == chan[id]
           h == hist[id]
           upto == IF h.drains = <<>> THEN 0 ELSE h.drains[Len(h.drains)].upto
       IN IF c.q # <<>> /\ Head(c.q).ok
          THEN /\ chan' = [chan EXCEPT ![id].q = Tail(c.q)]
               /\ th' = [th EXCEPT ![t].events =
                           IF WATCHERS[id].watcher_type = "Regular"
                           THEN regular_push(th[t].events, Head(c.q))
                           ELSE debounced_push(th[t].events, Head(c.q))]
               /\ UNCHANGED <<lock, hist>>
          ELSE /\ th' = [th EXCEPT ![t] =
                           Returned("get_events", "none", id, "ok", "none", th[t].events)]
               /\ lock' = NoThread
               /\ hist' = IF Len(h.delivered) > upto
                          THEN [hist EXCEPT ![id].drains =
                                  Append(h.drains, [upto |-> Len(h.delivered),
                                                    events |-> th[t].events])]
                          ELSE hist
               /\ chan' = IF c.q # <<>> THEN [chan EXCEPT ![id].q = Tail(c.q)] ELSE chan
    /\ UNCHANGED <<scn, platform, NEXT_WATCHER_ID, WATCHERS, produced, returned, stopped, req>>

\* variant: a disconnected channel is reported as an error (recv()? in the
\* place of the `while let Ok(..) = try_recv()`)
try_recv_reports_disconnect(t) ==
    /\ th[t].pc = "drain"
    /\ LET id == th[t].id
           c == chan[id]
           h == hist[id]
           upto == IF h.drains = <<>> THEN 0 ELSE h.drains[Len(h.drains)].upto
       IN IF c.q # <<>>
          THEN /\ chan' = [chan EXCEPT ![id].q = Tail(c.q)]
               /\ th' = [th EXCEPT ![t].events =
                           IF WATCHERS[id].watcher_type = "Regular"
                           THEN regular_push(th[t].events, Head(c.q))
                           ELSE debounced_push(th[t].events, Head(c.q))]
               /\ UNCHANGED <<lock, hist>>
          ELSE /\ th' = [th EXCEPT ![t] =
                           IF c.open
                           THEN Returned("get_events", "none", id, "ok", "none", th[t].events)
                           ELSE Returned("get_events", "none", id, "badarg", "recv", <<>>)]
               /\ lock' = NoThread
               /\ hist' = IF Len(h.delivered) > upto
                          THEN [hist EXCEPT ![id].drains =
                                  Append(h.drains, [upto |-> Len(h.delivered),
                                                    events |-> th[t].events])]
                          ELSE hist
               /\ UNCHANGED chan
    /\ UNCHANGED <<scn, platform, NEXT_WATCHER_ID, WATCHERS, produced, returned, stopped, req>>

\* get_events, lines 298-349: one receiver.try_recv() of the drain loop; the
\* loop ends, and the call returns and unlocks, when the channel is empty
try_recv(t) ==
    /\ th[t].pc = "drain"
    /\ LET id == th[t].id
           c == chan[id]
           h == hist[id]
           upto == IF h.drains = <<>> THEN 0 ELSE h.drains[Len(h.drains)].upto
       IN IF c.q # <<>>
          THEN /\ chan' = [chan EXCEPT ![id].q = Tail(c.q)]
               /\ th' = [th EXCEPT ![t].events =
                           IF WATCHERS[id].watcher_type = "Regular"
                           THEN regular_push(th[t].events, Head(c.q))
                           ELSE debounced_push(th[t].events, Head(c.q))]
               /\ UNCHANGED <<lock, hist>>
          ELSE /\ th' = [th EXCEPT ![t] =
                           Returned("get_events", "none", id, "ok", "none", th[t].events)]
               /\ lock' = NoThread
               /\ hist' = IF Len(h.delivered) > upto
                          THEN [hist EXCEPT ![id].drains =
                                  Append(h.drains, [upto |-> Len(h.delivered),
                                                    events |-> th[t].events])]
                          ELSE hist
               /\ UNCHANGED chan
    /\ UNCHANGED <<scn, platform, NEXT_WATCHER_ID, WATCHERS, produced, returned, stopped, req>>

get_watcher_info(t) ==
    /\ t \in HostThreads(scn)
    /\ th[t].pc = "idle"
    /\ lock = NoThread
    /\ \E id \in Ids :
         th' = [th EXCEPT ![t] =
                  IF id \in DOMAIN WATCHERS
                  THEN Returned("get_watcher_info", "none", id, "ok", "none",
                                <<WATCHERS[id].path, WATCHERS[id].recursive,
                                  backend_atom(WATCHERS[id].backend_kind)>>)
                  ELSE Returned("get_watcher_info", "none", id, "badarg", "lookup", <<>>)]
    /\ UNCHANGED <<scn, platform, NEXT_WATCHER_ID, WATCHERS, lock, chan, produced,
                   returned, stopped, req, hist>>

list_backends(t) ==
    /\ t \in HostThreads(scn)
    /\ th[t].pc = "idle"
    /\ th' = [th EXCEPT ![t] =
                Returned("list_available_backends", "none", 0, "ok", "none",
                         list_available_backends(platform))]
    /\ UNCHANGED <<scn, platform, NEXT_WATCHER_ID, WATCHERS, lock, chan, produced,
                   returned, stopped, req, hist>>

\* the host takes the returned value; the thread is free for its next call
host_continue(t) ==
    /\ th[t].pc = "done"
    /\ th' = [th EXCEPT ![t] = IdleThread]
    /\ UNCHANGED <<scn, platform, NEXT_WATCHER_ID, WATCHERS, lock, chan, produced,
                   returned, stopped, req, hist>>

\* the background producer of subscription `id` sends one item (tx.send)
backend_send(id) ==
    /\ id \in DOMAIN chan
    /\ chan[id].open
    /\ IF Tracked(scn) THEN produced < ItemsOf(scn)
                       ELSE Len(chan[id].q) < ItemsOf(scn)
    /\ chan[id].watcher # "NullWatcher"
    /\ chan[id].watcher_type = "Debounced" => ~DebouncerModelled(scn)
    /\ \E item \in (IF chan[id].watcher_type = "Regular" THEN RegularItemsOf(scn) ELSE DebouncedItemsOf(scn)) :
         /\ chan' = [chan EXCEPT ![id].q = Append(@, item)]
         /\ hist' = IF Tracked(scn)
                    THEN [hist EXCEPT ![id].delivered = Append(@, item)]
                    ELSE hist
    /\ produced' = IF Tracked(scn) THEN produced + 1 ELSE produced
    /\ UNCHANGED <<scn, platform, NEXT_WATCHER_ID, WATCHERS, lock, th, returned, stopped, req>>

\* the sending side of subscription `id` goes away (its producer thread ends
\* and drops tx): from then on try_recv finds the channel disconnected once
\* it is empty
backend_close(id) ==
    /\ id \in DOMAIN chan
    /\ chan[id].open
    /\ chan' = [chan EXCEPT ![id].open = FALSE]
    /\ UNCHANGED <<scn, platform, NEXT_WATCHER_ID, WATCHERS, lock, th, produced,
                   returned, stopped, req, hist>>

\* raw events reaching a debouncer: the kind and the path of each
RawKinds == {"Create", "Modify", "Remove"}

RawPaths == {"/w/f", "/w/d"}

\* the window's entry for `path` takes one more raw event; a path not yet in
\* the window is entered behind the others (window-arrival order).  `raws`
\* is history: the kinds of the raw events the entry stands for, in order
window_add(win, path, kind) ==
    IF \E i \in DOMAIN win : win[i].path = path
    THEN [i \in DOMAIN win |->
            IF win[i].path = path
            THEN [win[i] EXCEPT !.raws = Append(@, kind)]
            ELSE win[i]]
    ELSE Append(win, [path |-> path, raws |-> <<kind>>])

\* the batch a flush hands to the callback of lines 198-203: one
\* DebouncedEvent per path of the window, of kind DebouncedEventKind::Any
window_batch(win) ==
    [ok |-> TRUE,
     events |-> [i \in DOMAIN win |->
                   [path |-> win[i].path, kind |-> "Any", raws |-> win[i].raws]]]

\* a raw event for a path under the watch reaches debouncer `id`: the
\* debouncer is Collecting from the first one on, and every further one before
\* the flush falls into the same window
debounce_raw(id) ==
    /\ DebouncerModelled(scn)
    /\ id \in DOMAIN chan
    /\ chan[id].watcher_type = "Debounced"
    /\ chan[id].open
    /\ produced < ItemsOf(scn)
    /\ \E kind \in RawKinds, path \in RawPaths :
         chan' = [chan EXCEPT ![id].win = window_add(@, path, kind)]
    /\ produced' = produced + 1
    /\ UNCHANGED <<scn, platform, NEXT_WATCHER_ID, WATCHERS, lock, th, returned,
                   stopped, req, hist>>

\* the window of debouncer `id` has elapsed: its paths are sent as one batch
\* through the callback (tx.send(result)) and the debouncer is Idle again
debounce_flush(id) ==
    /\ DebouncerModelled(scn)
    /\ id \in DOMAIN chan
    /\ chan[id].watcher_type = "Debounced"
    /\ chan[id].open
    /\ chan[id].win # <<>>
    /\ chan' = [chan EXCEPT ![id].q = Append(@, window_batch(chan[id].win)),
                            ![id].win = <<>>]
    /\ hist' = [hist EXCEPT ![id].delivered = Append(@, window_batch(chan[id].win))]
    /\ UNCHANGED <<scn, platform, NEXT_WATCHER_ID, WATCHERS, lock, th, produced,
                   returned, stopped, req>>

Next ==
    \/ \E t \in Threads : start_watcher(t)
    \/ \E t \in Threads : start_watcher_with_backend(t)
    \/ \E t \in Threads : start_watcher_with_debounce(t)
    \/ \E t \in Threads : construct(t)
    \/ \E t \in Threads : insert(t)
    \/ \E t \in Threads : stop_watcher(t)
    \/ \E t \in Threads : get_events(t)
    \/ \E t \in Threads : try_recv(t)
    \/ \E t \in Threads : get_watcher_info(t)
    \/ \E t \in Threads : list_backends(t)
    \/ \E t \in Threads : host_continue(t)
    \/ \E id \in Ids : backend_send(id)

\* the steps of the workloads in which a producer may end
NextClose ==
    \/ Next
    \/ \E id \in Ids : backend_close(id)

\* the steps of the workload that follows the debouncer's window
NextDebounce ==
    \/ Next
    \/ \E id \in Ids : debounce_raw(id)
    \/ \E id \in Ids : debounce_flush(id)

\* a thread inside a call keeps running: it is not held up for ever at a
\* step it can take.  Nothing obliges the host to make a call or a producer
\* to send.
Fairness ==
    \A t \in Threads :
        /\ WF_vars(construct(t))
        /\ WF_vars(insert(t))
        /\ WF_vars(try_recv(t))

Spec == Init /\ [][Next]_vars

InitLifecycle == Init /\ scn = "lifecycle"

SpecLifecycle == InitLifecycle /\ [][Next]_vars

InitEvents == Init /\ scn = "events"

SpecEvents == InitEvents /\ [][Next]_vars

InitBackends == Init /\ scn = "backends"

SpecBackends == InitBackends /\ [][Next]_vars

InitErrors == Init /\ scn = "errors"

SpecErrors == InitErrors /\ [][NextClose]_vars

InitDrain == Init /\ scn = "drain"

SpecDrain == InitDrain /\ [][NextClose]_vars /\ Fairness

InitDebounce == Init /\ scn = "debounce"

SpecDebounce == InitDebounce /\ [][NextDebounce]_vars

TypeOK ==
    /\ scn \in Scenarios
    /\ platform \in Platforms
    /\ NEXT_WATCHER_ID \in 1 .. MaxId + 1
    /\ lock \in Threads \cup {NoThread}
    /\ DOMAIN WATCHERS \subseteq Ids
    /\ DOMAIN WATCHERS \subseteq DOMAIN chan

(* ---------------------------- claim helpers ---------------------------- *)

AtRest(t) == th[t].pc = "done"

CreateFailed(t) ==
    AtRest(t) /\ th[t].op \in CreateOps /\ th[t].status = "badarg"

\* the raw (kind, path) pairs an item names, in the item's order
RawPairs(item, wtype) ==
    IF ~item.ok THEN <<>>
    ELSE IF wtype = "Regular"
         THEN [i \in 1 .. Len(item.paths) |-> [kind |-> item.kind, path |-> item.paths[i]]]
         ELSE [i \in 1 .. Len(item.events) |->
                 [kind |-> item.events[i].kind, path |-> item.events[i].path]]

RECURSIVE RawPairsOf(_, _)
RawPairsOf(items, wtype) ==
    IF items = <<>> THEN <<>>
    ELSE RawPairs(Head(items), wtype) \o RawPairsOf(Tail(items), wtype)

RECURSIVE DrainedEvents(_)
DrainedEvents(drains) ==
    IF drains = <<>> THEN <<>>
    ELSE Head(drains).events \o DrainedEvents(Tail(drains))

Count(seq, x) == Cardinality({i \in DOMAIN seq : seq[i] = x})

SameBag(a, b) ==
    /\ Len(a) = Len(b)
    /\ \A x \in Range(a) \cup Range(b) : Count(a, x) = Count(b, x)

\* items the drains have taken off channel `id` so far
Taken(id) == Len(hist[id].delivered) - Len(chan[id].q)

LastUpto(id) ==
    IF hist[id].drains = <<>> THEN 0
    ELSE hist[id].drains[Len(hist[id].drains)].upto

Drainers(id) == {t \in Threads : th[t].pc = "drain" /\ th[t].id = id}

\* what the host has been or is about to be given for watcher `id`
Collected(id) ==
    DrainedEvents(hist[id].drains)
        \o (IF Drainers(id) = {} THEN <<>>
            ELSE th[CHOOSE t \in Drainers(id) : TRUE].events)

PathsOfEvents(events) == [i \in DOMAIN events |-> events[i][2]]

PathsOfRaw(raw) == [i \in DOMAIN raw |-> path_to_string(raw[i].path)]

NormalKind(kind, wtype) ==
    IF wtype = "Regular" THEN event_kind_to_atom(kind)
    ELSE debounced_event_kind_to_atom(kind)

(* ---------------------------- claims ----------------------------------- *)

\* C1: the ids returned by successful create calls, in the order the calls
\* return, are strictly increasing (the code takes the id before building
\* the watcher, so two interleaved calls can return out of order).
C1_IdsIncreaseInReturnOrder ==
    \A i, j \in DOMAIN returned : i < j => returned[i] < returned[j]

\* C2: a failed create consumes no id: every id the counter has handed out
\* was returned by a create call or belongs to a call still in progress.
C2_FailedCreateConsumesNoId ==
    \A i \in 1 .. NEXT_WATCHER_ID - 1 :
        \/ i \in Range(returned)
        \/ \E t \in Threads : th[t].pc \in {"construct", "insert"} /\ th[t].id = i

\* C3: a create call that ends anywhere but after its insert returns the
\* error; the step on which a create call fails leaves the registry map as
\* it was, and no id of a create call that is in progress or has failed is
\* ever in the registry.
C3_FailedCreateLeavesRegistry ==
    [][ /\ \A t \in Threads :
             (th[t].pc \in {"idle", "construct"} /\ th'[t].pc = "done"
                  /\ th'[t].op \in CreateOps)
                 => (th'[t].status = "badarg" /\ th'[t].val = <<>>)
        /\ \A t \in Threads :
             (th[t].pc # "done" /\ CreateFailed(t)') => WATCHERS' = WATCHERS
        /\ \A t \in Threads :
             (th'[t].pc \in {"construct", "insert"} \/ CreateFailed(t)')
                 => th'[t].id \notin DOMAIN WATCHERS'
      ]_vars

C3_Witness ==
    \E t \in Threads :
        /\ CreateFailed(t)
        /\ th[t].at \in {"new", "watch"}
        /\ DOMAIN WATCHERS # {}

StopStep(t) ==
    th[t].pc = "idle" /\ th'[t].pc = "done" /\ th'[t].op = "stop_watcher"

\* C4: stop_watcher returns ok exactly when the id is registered, and then
\* removes that entry and nothing else; otherwise it returns
\* watcher_not_found and changes nothing; an id is stopped with ok at most once.
C4_StopOkIffRegistered ==
    [][ \A t \in Threads : StopStep(t) =>
          LET id == th'[t].id IN
          /\ th'[t].status \in {"ok", "watcher_not_found"}
          /\ (th'[t].status = "ok") <=> (id \in DOMAIN WATCHERS)
          /\ th'[t].status = "ok" =>
               /\ id \notin stopped
               /\ DOMAIN WATCHERS' = DOMAIN WATCHERS \ {id}
               /\ \A j \in DOMAIN WATCHERS' : WATCHERS'[j] = WATCHERS[j]
          /\ th'[t].status = "watcher_not_found" =>
               /\ WATCHERS' = WATCHERS
               /\ chan' = chan
               /\ NEXT_WATCHER_ID' = NEXT_WATCHER_ID
      ]_vars

C4_Witness ==
    \E t, u \in Threads :
        /\ AtRest(t) /\ th[t].op = "stop_watcher" /\ th[t].status = "ok"
        /\ AtRest(u) /\ th[u].op = "stop_watcher" /\ th[u].status = "watcher_not_found"
        /\ th[t].id = th[u].id

LookupStep(t) ==
    /\ th[t].pc = "idle"
    /\ th'[t].pc \in {"drain", "done"}
    /\ th'[t].op \in {"get_events", "get_watcher_info"}

\* C5: once stop_watcher has returned ok for an id, every get_events and
\* get_watcher_info call on that id finds no watcher and returns the error,
\* never a successful result, and no drain of that id is ever running.
C5_StoppedStaysNotFound ==
    [][ /\ \A t \in Threads :
             (LookupStep(t) /\ th'[t].id \in stopped) =>
                 /\ th'[t].pc = "done"
                 /\ th'[t].status = "badarg"
                 /\ th'[t].val = <<>>
        /\ \A t \in Threads :
             th'[t].pc = "drain" => th'[t].id \notin stopped'
      ]_vars

C5_Witness ==
    \E t \in Threads :
        /\ AtRest(t)
        /\ th[t].op \in {"get_events", "get_watcher_info"}
        /\ th[t].id \in stopped
        /\ th[t].status = "badarg"
        /\ DOMAIN WATCHERS # {}

\* C6: for a live watcher nothing is lost from the channel, every drain that
\* took items returns one event per path of exactly the items sent since the
\* previous drain and leaves the channel empty, and what a running drain has
\* collected is what it has taken off the channel.
C6_DrainsExactlyOnce ==
    \A id \in DOMAIN hist :
        LET h == hist[id]
            d == h.drains
            wtype == chan[id].watcher_type
        IN /\ Taken(id) >= LastUpto(id)
           /\ SubSeq(h.delivered, Taken(id) + 1, Len(h.delivered)) = chan[id].q
           /\ \A k \in DOMAIN d :
                LET lo == IF k = 1 THEN 0 ELSE d[k - 1].upto IN
                /\ lo < d[k].upto
                /\ d[k].upto <= Len(h.delivered)
                /\ SameBag(PathsOfEvents(d[k].events),
                           PathsOfRaw(RawPairsOf(SubSeq(h.delivered, lo + 1, d[k].upto), wtype)))
           /\ Drainers(id) = {} => Taken(id) = LastUpto(id)
           /\ \A t \in Drainers(id) :
                SameBag(PathsOfEvents(th[t].events),
                        PathsOfRaw(RawPairsOf(SubSeq(h.delivered, LastUpto(id) + 1, Taken(id)), wtype)))

C6_Witness ==
    \E id \in DOMAIN hist :
        /\ Len(hist[id].drains) >= 2
        /\ \A k \in DOMAIN hist[id].drains : hist[id].drains[k].events # <<>>

\* C7: the events handed out for a watcher, drain after drain, are in the
\* order the items were sent, and an item naming k paths gives k consecutive
\* events, in the item's path order, each with the item's kind.
C7_OrderPreserved ==
    \A id \in DOMAIN hist :
        LET out == Collected(id)
            wtype == chan[id].watcher_type
            raw == RawPairsOf(SubSeq(hist[id].delivered, 1, Taken(id)), wtype)
        IN /\ Len(out) = Len(raw)
           /\ \A i \in DOMAIN out :
                /\ out[i][2] = path_to_string(raw[i].path)
                /\ out[i][1] = NormalKind(raw[i].kind, wtype)

C7_Witness ==
    \E id \in DOMAIN hist :
        /\ Len(hist[id].drains) >= 1
        /\ Len(hist[id].delivered) >= 2
        /\ \E i \in DOMAIN hist[id].delivered :
             LET item == hist[id].delivered[i] IN
             /\ i <= LastUpto(id)
             /\ Len(RawPairs(item, chan[id].watcher_type)) = 2
        /\ Len(DrainedEvents(hist[id].drains)) >= 3

\* what get_watcher_info reports for a registry entry
InfoOf(w) == <<w.path, w.recursive, backend_atom(w.backend_kind)>>

ConcreteMechanisms == {"inotify", "fsevent", "kqueue", "poll", "windows", "null"}

InfoStep(t) ==
    /\ th[t].pc = "idle"
    /\ th'[t].pc = "done"
    /\ th'[t].op = "get_watcher_info"
    /\ th'[t].status = "ok"

\* C8: get_watcher_info on a live watcher returns the path and the recursion
\* flag its create call was given and a concrete mechanism, never the
\* `recommended` alias, and what it reports for a watcher never changes
\* while the watcher is registered.
C8_InfoReportsCreation ==
    [][ /\ \A t \in Threads : InfoStep(t) =>
             LET id == th'[t].id IN
             /\ id \in DOMAIN WATCHERS /\ id \in DOMAIN req
             /\ th'[t].val[1] = req[id].path
             /\ th'[t].val[2] = req[id].recursive
             /\ th'[t].val[3] # "recommended"
             /\ th'[t].val[3] \in ConcreteMechanisms
             /\ th'[t].val = InfoOf(WATCHERS[id])
        /\ \A id \in DOMAIN WATCHERS \cap DOMAIN WATCHERS' :
             InfoOf(WATCHERS'[id]) = InfoOf(WATCHERS[id])
      ]_vars

C8_Witness ==
    \E t \in Threads :
        /\ AtRest(t) /\ th[t].op = "get_watcher_info" /\ th[t].status = "ok"
        /\ th[t].id \in DOMAIN req
        /\ req[th[t].id].atom = "recommended"
        /\ th[t].val[1] = "/v"
        /\ th[t].val[3] = "fsevent"

\* C9: every identifier list_available_backends returns is accepted by
\* BackendType::from_atom on the same platform.
C9_ListedBackendsAccepted ==
    \A t \in Threads :
        (AtRest(t) /\ th[t].op = "list_available_backends") =>
            \A i \in DOMAIN th[t].val : from_atom(th[t].val[i], platform) # BadArg

CanonicalKinds == {"created", "modified", "removed", "renamed", "other", "unknown"}

EmittedKinds == {"created", "modified", "removed", "meta", "unknown"}

Recognised(wtype) ==
    IF wtype = "Regular" THEN {"Create", "Modify", "Remove", "Other"} ELSE {"Any"}

C11_LockFreeWhileDraining ==
    \A t \in Threads : th[t].pc = "drain" => lock = NoThread

\* the entries, one per path, of the batches `items`, in the order sent
RECURSIVE FlushEntries(_)
FlushEntries(items) ==
    IF items = <<>> THEN <<>>
    ELSE (IF Head(items).ok THEN Head(items).events ELSE <<>>)
             \o FlushEntries(Tail(items))

\* the number of raw events the entries stand for
RECURSIVE RawTotal(_)
RawTotal(entries) ==
    IF entries = <<>> THEN 0
    ELSE Len(Head(entries).raws) + RawTotal(Tail(entries))

OnePerPath(entries) ==
    \A i, j \in DOMAIN entries : entries[i].path = entries[j].path => i = j

Last(s) == s[Len(s)]

\* an entry of a flushed batch that stands for several raw events of
\* different kinds
MixedKinds(entry) == Cardinality(Range(entry.raws)) >= 2

C14_LiveIffRegistered ==
    DOMAIN chan = DOMAIN WATCHERS

\* the create calls that have built and subscribed their watcher and have
\* not stored it yet
Inserting(id) == {t \in Threads : th[t].pc = "insert" /\ th[t].id = id}

\* C14 as amended: every registry entry has a live subscription; a live
\* subscription without an entry belongs to exactly one create call that is
\* between subscribing it and inserting it; a create that fails leaves no
\* subscription; stop_watcher removes the entry and releases the
\* subscription in one step, with the lock free before and after it.
C14_RegisteredIsLive ==
    /\ [](/\ DOMAIN WATCHERS \subseteq DOMAIN chan
          /\ \A id \in DOMAIN chan \ DOMAIN WATCHERS : Cardinality(Inserting(id)) = 1
          /\ \A id \in DOMAIN WATCHERS : Inserting(id) = {})
    /\ [][ \A t \in Threads :
             (StopStep(t) /\ th'[t].status = "ok") =>
                 /\ th'[t].id \in DOMAIN WATCHERS /\ th'[t].id \in DOMAIN chan
                 /\ th'[t].id \notin DOMAIN WATCHERS'
                 /\ th'[t].id \notin DOMAIN chan'
                 /\ lock = NoThread /\ lock' = NoThread
         ]_vars

\* one watcher has been stopped while another create call holds a live
\* subscription it has not inserted yet
C14_Witness ==
    /\ stopped # {}
    /\ \E id \in DOMAIN chan \ DOMAIN WATCHERS : Inserting(id) # {}
    /\ \E t \in Threads : AtRest(t) /\ th[t].op = "stop_watcher" /\ th[t].status = "ok"

\* the sending side of the channel of watcher `id` is gone
Closed(id) == id \in DOMAIN chan /\ ~chan[id].open

\* thread t's get_events call returns in this step
DrainReturn(t) == th[t].pc = "drain" /\ th'[t].pc = "done"

\* C15: when the sending side of a live watcher's channel is closed, the
\* session stays in the registry until stop_watcher removes it, nothing more
\* is queued, and every get_events on it is let into the drain and returns
\* ok: the events still queued, and an empty sequence when nothing was left.
C15_ClosedSourceDrainsEmpty ==
    [][ /\ \A id \in DOMAIN WATCHERS :
             Closed(id) =>
                 \/ /\ id \in DOMAIN WATCHERS' /\ WATCHERS'[id] = WATCHERS[id]
                    /\ Closed(id)'
                    /\ Len(chan'[id].q) <= Len(chan[id].q)
                 \/ \E t \in Threads :
                      StopStep(t) /\ th'[t].id = id /\ th'[t].status = "ok"
        /\ \A id \in DOMAIN chan :
             (chan[id].open /\ Closed(id)') =>
                 /\ WATCHERS' = WATCHERS
                 /\ chan'[id].q = chan[id].q
        /\ \A t \in Threads :
             (LookupStep(t) /\ th'[t].op = "get_events"
                 /\ th'[t].id \in DOMAIN WATCHERS /\ Closed(th'[t].id)) =>
                 th'[t].pc = "drain"
        /\ \A t \in Threads :
             (DrainReturn(t) /\ Closed(th[t].id)) =>
                 /\ th'[t].status = "ok"
                 /\ th'[t].val = th[t].events
                 /\ chan[th[t].id].q = <<>>
                 /\ th[t].id \in DOMAIN WATCHERS'
                 /\ Taken(th[t].id) = LastUpto(th[t].id) => th'[t].val = <<>>
      ]_vars

\* a watcher whose source is closed had its queued events drained and a
\* later get_events returned ok with no events; the watcher is still registered
C15_Witness ==
    \E t \in Threads :
        /\ AtRest(t) /\ th[t].op = "get_events" /\ th[t].status = "ok"
        /\ th[t].val = <<>>
        /\ th[t].id \in DOMAIN WATCHERS
        /\ Closed(th[t].id)
        /\ \E k \in DOMAIN hist[th[t].id].drains :
             hist[th[t].id].drains[k].events # <<>>
        /\ LastUpto(th[t].id) = Len(hist[th[t].id].delivered)

\* C16 as stated: every get_events call returns: a thread that is in the
\* drain loop leaves it after finitely many steps, whatever the producer of
\* the watcher and the other threads do meanwhile.
C16_GetEventsReturns ==
    \A t \in Threads : (th[t].pc = "drain") ~> (th[t].pc = "done")

NativePlatforms == {"linux", "macos", "windows"}

\* the native mechanism the claim names for each platform
NativeAtom(os) ==
    CASE os = "linux"   -> "inotify"
      [] os = "macos"   -> "fsevent"
      [] os = "windows" -> "windows"
      [] OTHER          -> "none"

\* the watchers in the registry that were asked for with `recommended`
RecommendedIds ==
    {id \in DOMAIN WATCHERS \cap DOMAIN req : req[id].atom = "recommended"}

\* C17 as stated: `recommended` resolves to the one native mechanism of the
\* platform, and on a platform without one the create fails: no session
\* asked for with `recommended` has the polling mechanism as its backend.
C17_RecommendedIsNative ==
    \A id \in RecommendedIds :
        /\ platform \in NativePlatforms
        /\ backend_atom(WATCHERS[id].backend_kind) = NativeAtom(platform)

\* C17 as amended: `recommended` resolves, as a function of the platform
\* alone, to inotify on linux, fsevent on macos, windows on windows and to
\* the polling mechanism on any other platform, where the create does not
\* fail for want of a native mechanism; the atom itself is never rejected.
C17_RecommendedResolves ==
    /\ \A id \in RecommendedIds :
         backend_atom(WATCHERS[id].backend_kind) =
             IF platform \in NativePlatforms THEN NativeAtom(platform) ELSE "poll"
    /\ \A id \in RecommendedIds :
         chan[id].watcher_type = "Regular" =>
             chan[id].watcher = WATCHERS[id].backend_kind
    /\ \A t \in Threads :
         (CreateFailed(t) /\ th[t].arg = "recommended") => th[t].at # "from_atom"

\* on a platform without a native mechanism a watcher asked for with
\* `recommended` is registered and get_watcher_info reports `poll` for it
C17_Witness ==
    /\ platform = "other"
    /\ \E t \in Threads :
         /\ AtRest(t) /\ th[t].op = "get_watcher_info" /\ th[t].status = "ok"
         /\ th[t].id \in RecommendedIds
         /\ th[t].val[3] = "poll"

\* the watchers in the registry that were asked for with a concrete backend
ExplicitIds ==
    {id \in DOMAIN WATCHERS \cap DOMAIN req : req[id].atom # "recommended"}

\* C18 as stated: a watcher created with an explicit concrete backend b uses
\* mechanism b and get_watcher_info reports b, with and without a debounce
\* window; a debounced watcher asked for with `null` produces no events.
C18_ExplicitBackendUsed ==
    /\ \A id \in ExplicitIds :
         backend_atom(WATCHERS[id].backend_kind) = req[id].atom
    /\ \A t \in Threads :
         (AtRest(t) /\ th[t].op = "get_watcher_info" /\ th[t].status = "ok"
             /\ th[t].id \in ExplicitIds) =>
             th[t].val[3] = req[th[t].id].atom
    /\ \A id \in ExplicitIds :
         req[id].atom = "null" => hist[id].delivered = <<>>

\* thread t takes one turn of the drain loop of its get_events call
DrainStep(t) ==
    /\ th[t].pc = "drain"
    /\ lock = t
    /\ \/ th'[t] # th[t]
       \/ /\ th[t].id \in DOMAIN chan'
          /\ Len(chan'[th[t].id].q) < Len(chan[th[t].id].q)

\* watcher j is the same before and after the step: registered or not, its
\* path, recursion flag and backend, its channel with the undrained items in
\* their order
Untouched(j) ==
    /\ (j \in DOMAIN WATCHERS) <=> (j \in DOMAIN WATCHERS')
    /\ j \in DOMAIN WATCHERS => WATCHERS'[j] = WATCHERS[j]
    /\ (j \in DOMAIN chan) <=> (j \in DOMAIN chan')
    /\ j \in DOMAIN chan => chan'[j] = chan[j]

\* C19: a stop_watcher, get_events or get_watcher_info step on watcher i
\* leaves every other watcher j untouched; get_events and get_watcher_info
\* also leave the registry and the id counter as they were.
C19_OtherWatchersUntouched ==
    [][ \A t \in Threads :
          /\ StopStep(t) =>
               /\ \A j \in Ids \ {th'[t].id} : Untouched(j)
               /\ NEXT_WATCHER_ID' = NEXT_WATCHER_ID
          /\ LookupStep(t) =>
               /\ \A j \in Ids \ {th'[t].id} : Untouched(j)
               /\ WATCHERS' = WATCHERS
               /\ chan' = chan
               /\ NEXT_WATCHER_ID' = NEXT_WATCHER_ID
          /\ DrainStep(t) =>
               /\ \A j \in Ids \ {th[t].id} : Untouched(j)
               /\ WATCHERS' = WATCHERS
               /\ NEXT_WATCHER_ID' = NEXT_WATCHER_ID
      ]_vars

\* one watcher was stopped, and another was drained, while a further
\* registered watcher holds undrained items
C19_Witness ==
    \E t, u \in Threads :
        /\ AtRest(t) /\ th[t].op = "stop_watcher" /\ th[t].status = "ok"
        /\ AtRest(u) /\ th[u].op = "get_events" /\ th[u].status = "ok"
        /\ \E j \in DOMAIN WATCHERS :
             /\ j # th[t].id
             /\ chan[j].q # <<>>

\* the events the raw pairs `raw` stand for, in order
EventsOfRaw(raw, wtype) ==
    [i \in DOMAIN raw |->
        <<NormalKind(raw[i].kind, wtype),
          path_to_string(raw[i].path),
          file_type(raw[i].path)>>]

\* the items the k-th logged drain of watcher `id` took off the channel
ItemsOfDrain(id, k) ==
    SubSeq(hist[id].delivered,
           (IF k = 1 THEN 0 ELSE hist[id].drains[k - 1].upto) + 1,
           hist[id].drains[k].upto)

\* the item the drain loop of thread t is about to take is an error item
AtErrorItem(t) ==
    /\ th[t].pc = "drain"
    /\ chan[th[t].id].q # <<>>
    /\ ~Head(chan[th[t].id].q).ok

\* C20: an error item on the channel is taken and skipped: the drain goes
\* on, the events collected so far are kept, the call returns ok only when
\* the channel is empty, with the events of all the items before and after
\* the error item in their order, and the session stays registered.
C20_ErrorItemsSkipped ==
    /\ [](\A id \in DOMAIN hist : \A k \in DOMAIN hist[id].drains :
            hist[id].drains[k].events =
                EventsOfRaw(RawPairsOf(ItemsOfDrain(id, k), chan[id].watcher_type),
                            chan[id].watcher_type))
    /\ [][ \A t \in Threads :
             /\ (AtErrorItem(t) /\ DrainStep(t)) =>
                  /\ th'[t].pc = "drain"
                  /\ th'[t].events = th[t].events
                  /\ chan'[th[t].id].q = Tail(chan[th[t].id].q)
                  /\ WATCHERS' = WATCHERS
             /\ DrainReturn(t) =>
                  /\ th'[t].status = "ok"
                  /\ th'[t].val = th[t].events
                  /\ chan[th[t].id].q = <<>>
                  /\ th[t].id \in DOMAIN WATCHERS'
         ]_vars

\* one get_events call took an event item, an error item and another event
\* item and returned the two events in order; the watcher is still registered
C20_Witness ==
    \E t \in Threads :
        /\ AtRest(t) /\ th[t].op = "get_events" /\ th[t].status = "ok"
        /\ th[t].id \in DOMAIN WATCHERS
        /\ hist[th[t].id].delivered =
             << [ok |-> TRUE,  kind |-> "Create", paths |-> <<"/w/f">>],
                [ok |-> FALSE, kind |-> "Error",  paths |-> <<>>],
                [ok |-> TRUE,  kind |-> "Remove", paths |-> <<"/w/d">>] >>
        /\ Len(hist[th[t].id].drains) = 1
        /\ th[t].val = << <<"created", "/w/f", "file">>,
                          <<"removed", "/w/d", "directory">> >>

====
